---- MODULE Spec2Model ----
(***************************************************************************)
(* Model of what-constitutes-software-query (src/src/lib.rs): the          *)
(* default-snapshot extractor _map_to_output_format with its two entry     *)
(* points, and the sample_* query pipelines built on it.                   *)
(*                                                                         *)
(* Rust's Option<T> is modelled as a sequence: None is <<>>, Some(v) is    *)
(* <<v>>.  eprintln! output is modelled as a sequence of warning records.  *)
(***************************************************************************)
EXTENDS Naturals, Sequences, FiniteSets, TLC

VARIABLES
    project,      \* extractor run: the project handed to the extractor
    xpc,          \* extractor run: "new", "checked", "mapped"
    can,          \* extractor run: value returned by can_map_to_output_format
    out,          \* extractor run: outcome of map_to_output_format
    db,           \* query run: database.projects(), in store order
    query,        \* query run: "none", "stars", "all", "developed"
    pc,           \* query run: the stage of the chain reached
    population,   \* stream after the filter_by calls
    pass1,        \* stream after the first sample call
    valid,        \* stream after filter(can_map_to_output_format)
    sample,       \* stream after the second sample call
    lists,        \* stream after flat_map(map_to_output_format): a list per project
    log,          \* warnings printed by the query so far
    csv,          \* the file written: None, or Some([headers, rows])
    result        \* "running", then the Result the query returns: "Ok" or "Err"

xvars == <<project, xpc, can, out>>
qvars == <<db, query, pc, population, pass1, valid, sample, lists, log, csv, result>>
vars == <<project, xpc, can, out,
          db, query, pc, population, pass1, valid, sample, lists, log, csv, result>>

----------------------------------------------------------------------------
(* Bounds of the model *)

MaxHeads == 2        \* heads per project
MaxChanges == 2      \* change entries in the tree of a commit
MaxProjects == 3     \* projects in the database

\* The sizes of the samples, scaled down to the size of the database:
SELECTION_SIZE == 1  \* lib.rs:12 has 1020
OVERSAMPLE == 1      \* the 1000 of `SELECTION_SIZE + 1000`
TOP_PRESELECT == 2   \* the 1500 of the first Top(1500)
TOP_SELECT == 1      \* the 1020 of the second Top(1020)

\* Seeds for different selections
SEED_ALL == 1
SEED_100LOC_7D_10C == 2
SEED_1000LOC_180D_100C == 3

HEADERS == <<"pid", "path", "hash_id">>

----------------------------------------------------------------------------
(* Data model: the views the store hands to the extractor *)

None == <<>>
Some(v) == <<v>>
unwrap(o) == o[1]

RECURSIVE SeqsUpTo(_, _)
SeqsUpTo(S, n) ==
    IF n = 0 THEN {<<>>}
    ELSE LET shorter == SeqsUpTo(S, n - 1)
         IN shorter \cup {Append(s, x) : s \in {t \in shorter : Len(t) = n - 1}, x \in S}

BranchNames == {"main", "dev"}
HeadNames == {"refs/heads/main", "refs/heads/dev"}
Locations == {"a", "b"}
SnapshotIds == {7}
CommitIds == {1, 2, 3}

\* a change entry without its path_id: path_id is the position in the tree
ChangeShapes == [path : {None} \cup {Some([location |-> l]) : l \in Locations},
                 snapshot_id : {None} \cup {Some(s) : s \in SnapshotIds}]

WithPathIds(shapes) ==
    [i \in 1..Len(shapes) |->
        [path_id |-> i, path |-> shapes[i].path, snapshot_id |-> shapes[i].snapshot_id]]

Trees == {[changes |-> WithPathIds(s)] : s \in SeqsUpTo(ChangeShapes, MaxChanges)}

\* the tree of commit 2 is fixed, and differs from every tree of commit 1
OtherTree == [changes |-> <<[path_id |-> 9, path |-> Some([location |-> "z"]),
                            snapshot_id |-> Some(8)]>>]

Heads == [name : HeadNames, commit_id : CommitIds]

\* commit 1 carries the tree under study, commit 2 a fixed tree, commit 3
\* is a commit id the store cannot resolve
CommitStore(tree) ==
    [c \in CommitIds |->
        IF c = 1 THEN Some([id |-> 1, tree |-> tree])
        ELSE IF c = 2 THEN Some([id |-> 2, tree |-> OtherTree])
        ELSE None]

Projects(id) ==
    {[id |-> id, default_branch |-> b, heads |-> h, commits |-> CommitStore(t)] :
        b \in {None} \cup {Some(n) : n \in BranchNames},
        h \in {None} \cup {Some(s) : s \in SeqsUpTo(Heads, MaxHeads)},
        t \in Trees}

----------------------------------------------------------------------------
(* The extractor *)

Warning(msg, project_id, detail) ==
    [msg |-> msg, project |-> project_id, detail |-> detail]

\* `return None` after the warnings printed so far
Failure(warnings, calls) == [result |-> None, warnings |-> warnings, calls |-> calls]

\* faulty variant of map_changes: a change without snapshot id is dropped silently
RECURSIVE map_changes_silent_deletion(_, _)
map_changes_silent_deletion(project_id, changes) ==
    IF changes = <<>> THEN [rows |-> <<>>, warnings |-> <<>>]
    ELSE LET change == Head(changes)
             rest == map_changes_silent_deletion(project_id, Tail(changes))
         IN IF change.path = None
            THEN [rows |-> rest.rows,
                  warnings |-> <<Warning("path not found", project_id, change.path_id)>>
                                   \o rest.warnings]
            ELSE IF change.snapshot_id = None
            THEN rest
            ELSE [rows |-> <<<<project_id, unwrap(change.path).location,
                               unwrap(change.snapshot_id)>>>> \o rest.rows,
                  warnings |-> rest.warnings]

\* the closure of the flat_map over the changes of the tree, one change at a
\* time: the rows kept and the warnings printed, both in the order of the tree
RECURSIVE map_changes(_, _)
map_changes(project_id, changes) ==
    IF changes = <<>> THEN [rows |-> <<>>, warnings |-> <<>>]
    ELSE LET change == Head(changes)
             rest == map_changes(project_id, Tail(changes))
         IN IF change.path = None
            THEN [rows |-> rest.rows,
                  warnings |-> <<Warning("path not found", project_id, change.path_id)>>
                                   \o rest.warnings]
            ELSE IF change.snapshot_id = None
            THEN [rows |-> rest.rows,
                  warnings |-> <<Warning("snapshot id not found", project_id, change.path_id)>>
                                   \o rest.warnings]
            ELSE [rows |-> <<<<project_id, unwrap(change.path).location,
                               unwrap(change.snapshot_id)>>>> \o rest.rows,
                  warnings |-> rest.warnings]

\* faulty variant of changes_of_tree: an empty list of rows is reported as a failure
changes_of_tree_nonempty(p, head_commit, warnings, calls) ==
    LET mapped == map_changes(p.id, head_commit.tree.changes)
        calls5 == calls \o <<"tree_with_data", "changes_with_data">>
    IN IF mapped.rows = <<>>
       THEN Failure(warnings \o mapped.warnings, calls5)
       ELSE [result |-> Some(mapped.rows),
             warnings |-> warnings \o mapped.warnings,
             calls |-> calls5]

\* lines 61-83: the tree of the commit, its changes mapped, Some(changes)
changes_of_tree(p, head_commit, warnings, calls) ==
    LET mapped == map_changes(p.id, head_commit.tree.changes)
    IN [result |-> Some(mapped.rows),
        warnings |-> warnings \o mapped.warnings,
        calls |-> calls \o <<"tree_with_data", "changes_with_data">>]

\* lines 53-59: the commit of the head, or a warning and None
commit_of_head(p, head, warnings, calls) ==
    LET head_commit == p.commits[head.commit_id]
        calls4 == Append(calls, "commit_with_data")
    IN IF head_commit = None
       THEN Failure(Append(warnings,
                           Warning("no commit found at default head", p.id, head.commit_id)),
                    calls4)
       ELSE changes_of_tree(p, unwrap(head_commit), warnings, calls4)

\* faulty variant of first_default_head: the last of the matching heads is used
last_default_head(default_heads) == default_heads[Len(default_heads)]

\* line 51: default_heads[0]
first_default_head(default_heads) == default_heads[1]

\* lines 40-51: the heads named as the default branch; none is a failure,
\* several a warning
default_head_of(p, default_branch_path, heads, calls) ==
    LET default_heads == SelectSeq(heads, LAMBDA head : head.name = default_branch_path)
    IN IF Len(default_heads) = 0
       THEN Failure(<<Warning("no default head found", p.id, 0)>>, calls)
       ELSE commit_of_head(p, first_default_head(default_heads),
                IF Len(default_heads) > 1
                THEN <<Warning("multiple default heads found", p.id, Len(default_heads))>>
                ELSE <<>>,
                calls)

\* faulty variant of heads_of_project: missing heads are taken as an empty list of heads
heads_of_project_or_empty(p, default_branch_path, calls) ==
    default_head_of(p, default_branch_path,
                    IF p.heads = None THEN <<>> ELSE unwrap(p.heads),
                    Append(calls, "heads_with_data"))

\* lines 32-38: the heads of the project, or a warning and None
heads_of_project(p, default_branch_path, calls) ==
    IF p.heads = None
    THEN Failure(<<Warning("no heads found", p.id, 0)>>, Append(calls, "heads_with_data"))
    ELSE default_head_of(p, default_branch_path, unwrap(p.heads),
                         Append(calls, "heads_with_data"))

\* lines 20-84
_map_to_output_format(p) ==
    IF p.default_branch = None
    THEN Failure(<<Warning("no default branch found", p.id, 0)>>, <<"default_branch">>)
    ELSE heads_of_project(p, "refs/heads/" \o unwrap(p.default_branch), <<"default_branch">>)

map_to_output_format(p) == _map_to_output_format(p)

\* faulty variant of can_map_to_output_format: a project whose list of rows is empty
\* is not accepted
can_map_nonempty(p) ==
    LET mapped == _map_to_output_format(p)
    IN mapped.result # None /\ unwrap(mapped.result) # <<>>

\* faulty variant of can_map_to_output_format: only the first step of the chain is tried
can_map_with_default_branch(p) == p.default_branch # None

can_map_to_output_format(p) == _map_to_output_format(p).result # None

----------------------------------------------------------------------------
(* The database of a query run *)

\* the attributes the developed queries filter by: at the thresholds of
\* sample_developed_py, and one day too young
Mature == [max_h_index1 |-> 3, age_days |-> 240, users |-> 3, locs |-> 286,
           snapshots |-> 18, commits |-> 23]
Young == [Mature EXCEPT !.age_days = 239]

\* the Python projects: each history, young or mature, few or many stars
Kinds == {[language |-> "Python", metrics |-> Mature],
          [language |-> "Python", metrics |-> Young]}

StarCounts == {1, 2}

History(commit_id, changes) ==
    [default_branch |-> Some("main"),
     heads |-> Some(<<[name |-> "refs/heads/main", commit_id |-> commit_id]>>),
     commits |-> CommitStore([changes |-> changes])]

OneFile == <<[path_id |-> 1, path |-> Some([location |-> "a"]), snapshot_id |-> Some(7)]>>

\* what the extractor reads of a project of the database: one head named as
\* the default branch; its commit is unknown to the store, or has an empty
\* tree, or has a tree of one file
Histories == {History(3, <<>>), History(1, <<>>), History(1, OneFile)}

Stored(id, h, language, stars, metrics) ==
    [id |-> id, default_branch |-> h.default_branch, heads |-> h.heads,
     commits |-> h.commits, language |-> language, stars |-> stars, metrics |-> metrics]

\* beside the Python projects, a project of another language that every
\* other filter and sampler would take: mature, most stars, one file
StoredProjects(id) ==
    {Stored(id, h, k.language, st, k.metrics) :
        h \in Histories, k \in Kinds, st \in StarCounts}
    \cup {Stored(id, History(1, OneFile), "Java", 2, Mature)}

RECURSIVE Databases(_)
Databases(n) ==
    IF n = 0 THEN {<<>>}
    ELSE LET smaller == Databases(n - 1)
         IN smaller \cup {Append(d, p) : d \in {x \in smaller : Len(x) = n - 1},
                                         p \in StoredProjects(n)}

----------------------------------------------------------------------------
(* Samplers and stream operations of the query engine *)

Min(a, b) == IF a < b THEN a ELSE b

\* insert p before the first project with fewer stars
RECURSIVE insert_by_stars(_, _)
insert_by_stars(p, sorted) ==
    IF sorted = <<>> THEN <<p>>
    ELSE IF Head(sorted).stars < p.stars THEN <<p>> \o sorted
    ELSE <<Head(sorted)>> \o insert_by_stars(p, Tail(sorted))

\* sort_by(project::Stars): most stars first, ties in stream order
RECURSIVE sort_by_stars(_)
sort_by_stars(stream) ==
    IF stream = <<>> THEN <<>>
    ELSE insert_by_stars(stream[Len(stream)],
                         sort_by_stars(SubSeq(stream, 1, Len(stream) - 1)))

\* sample(Top(n))
Top(n, stream) == SubSeq(stream, 1, Min(n, Len(stream)))

\* the generator behind Seed: a small congruential generator stands for it
NextRandom(state) == (state * 5 + 3) % 16

\* the reservoir after the elements from position i on were offered
RECURSIVE fill_reservoir(_, _, _, _, _)
fill_reservoir(reservoir, stream, i, amount, state) ==
    IF i > Len(stream) THEN reservoir
    ELSE LET drawn == NextRandom(state)
             k == drawn % i
         IN fill_reservoir(IF k < amount THEN [reservoir EXCEPT ![k + 1] = stream[i]]
                                         ELSE reservoir,
                           stream, i + 1, amount, drawn)

\* sample(Random(n, Seed(seed))): n elements without replacement, the whole
\* stream when it has no more than n; the generator starts from the seed at
\* every call
Random(n, seed, stream) ==
    fill_reservoir(SubSeq(stream, 1, Min(n, Len(stream))), stream, n + 1, n, seed)

\* the subsequence of a stream at the positions of I
RECURSIVE at_positions(_, _, _)
at_positions(stream, I, i) ==
    IF i > Len(stream) THEN <<>>
    ELSE (IF i \in I THEN <<stream[i]>> ELSE <<>>) \o at_positions(stream, I, i + 1)

\* Distinct(_, MinRatio(project::Commits, 0.9)) discards candidates by a
\* criterion on commit data that the query does not see: any subsequence of
\* the stream may be what it lets through to the inner sampler
DistinctCandidates(stream) ==
    {at_positions(stream, I, 1) : I \in SUBSET (1..Len(stream))}

----------------------------------------------------------------------------
(* The stages of the sample_*_py queries *)

Queries == {"stars", "all", "developed"}

\* the filter_by calls of the query
selects(q, p) ==
    /\ p.language = "Python"
    /\ q = "developed" =>
          /\ p.metrics.max_h_index1 >= 3
          /\ p.metrics.age_days >= 240
          /\ p.metrics.users >= 3
          /\ p.metrics.locs >= 286
          /\ p.metrics.snapshots >= 18
          /\ p.metrics.commits >= 23

seed_of(q) == IF q = "developed" THEN SEED_100LOC_7D_10C ELSE SEED_ALL

first_sample_size(q) ==
    IF q = "stars" THEN TOP_PRESELECT ELSE SELECTION_SIZE + OVERSAMPLE

\* faulty variant of second_sample_size: the size of the first sample is used again
second_sample_size_as_first(q) ==
    IF q = "stars" THEN TOP_PRESELECT ELSE SELECTION_SIZE + OVERSAMPLE

second_sample_size(q) ==
    IF q = "stars" THEN TOP_SELECT ELSE SELECTION_SIZE

\* the outputs the sample call of query q may give for size n
samples(q, n, stream) ==
    IF q = "stars" THEN {Top(n, sort_by_stars(stream))}
    ELSE IF q = "all" THEN {Random(n, seed_of(q), stream)}
    ELSE {Random(n, seed_of(q), candidates) : candidates \in DistinctCandidates(stream)}

\* faulty variant of keep_mappable: the stream is passed on unfiltered
keep_all(stream) == stream

\* filter(can_map_to_output_format)
keep_mappable(stream) == SelectSeq(stream, can_map_to_output_format)

\* what a run of the extractor over each project of the stream prints
RECURSIVE warnings_of(_)
warnings_of(stream) ==
    IF stream = <<>> THEN <<>>
    ELSE _map_to_output_format(Head(stream)).warnings \o warnings_of(Tail(stream))

\* flat_map(map_to_output_format): the list of each project that has one
RECURSIVE lists_of(_)
lists_of(stream) ==
    IF stream = <<>> THEN <<>>
    ELSE LET converted == map_to_output_format(Head(stream)).result
         IN (IF converted = None THEN <<>> ELSE <<unwrap(converted)>>)
                \o lists_of(Tail(stream))

\* the rows of the file: the lists one after the other
RECURSIVE flatten(_)
flatten(ls) == IF ls = <<>> THEN <<>> ELSE Head(ls) \o flatten(Tail(ls))

NoOutcome == [result |-> None, warnings |-> <<>>, calls |-> <<>>]

NoProject == [id |-> 0, default_branch |-> None, heads |-> None,
              commits |-> CommitStore([changes |-> <<>>])]

\* database.projects() with the filter_by calls of query q
Select(q) ==
    /\ pc = "idle"
    /\ query' = q
    /\ population' = SelectSeq(db, LAMBDA p : selects(q, p))
    /\ pc' = "selected"
    /\ UNCHANGED <<db, pass1, valid, sample, lists, log, csv, result>>

\* the first sample call (after sort_by for the stars query)
SampleFirst ==
    /\ pc = "selected"
    /\ pass1' \in samples(query, first_sample_size(query), population)
    /\ pc' = "sampled"
    /\ UNCHANGED <<db, query, population, valid, sample, lists, log, csv, result>>

\* filter(can_map_to_output_format)
FilterMappable ==
    /\ pc = "sampled"
    /\ valid' = keep_mappable(pass1)
    /\ log' = log \o warnings_of(pass1)
    /\ pc' = "filtered"
    /\ UNCHANGED <<db, query, population, pass1, sample, lists, csv, result>>

\* the second sample call (after sort_by for the stars query)
SampleSecond ==
    /\ pc = "filtered"
    /\ sample' \in samples(query, second_sample_size(query), valid)
    /\ pc' = "resampled"
    /\ UNCHANGED <<db, query, population, pass1, valid, lists, log, csv, result>>

\* flat_map(map_to_output_format)
FlatMap ==
    /\ pc = "resampled"
    /\ lists' = lists_of(sample)
    /\ log' = log \o warnings_of(sample)
    /\ pc' = "mapped"
    /\ UNCHANGED <<db, query, population, pass1, valid, sample, csv, result>>

\* into_csv_with_headers_in_dir: the file is written, or writing fails
IntoCsv ==
    /\ pc = "mapped"
    /\ \E written \in BOOLEAN :
          IF written
          THEN /\ csv' = Some([headers |-> HEADERS, rows |-> flatten(lists)])
               /\ result' = "Ok"
          ELSE /\ csv' = None
               /\ result' = "Err"
    /\ pc' = "done"
    /\ UNCHANGED <<db, query, population, pass1, valid, sample, lists, log>>

QIdle ==
    /\ query = "none"
    /\ pc = "idle"
    /\ population = <<>>
    /\ pass1 = <<>>
    /\ valid = <<>>
    /\ sample = <<>>
    /\ lists = <<>>
    /\ log = <<>>
    /\ csv = None
    /\ result = "running"

XIdle ==
    /\ project = NoProject
    /\ xpc = "idle"
    /\ can = FALSE
    /\ out = NoOutcome

Init ==
    /\ db \in Databases(MaxProjects)
    /\ QIdle
    /\ XIdle

Next ==
    \/ \E q \in Queries : Select(q) /\ UNCHANGED xvars
    \/ SampleFirst /\ UNCHANGED xvars
    \/ FilterMappable /\ UNCHANGED xvars
    \/ SampleSecond /\ UNCHANGED xvars
    \/ FlatMap /\ UNCHANGED xvars
    \/ IntoCsv /\ UNCHANGED xvars

Spec == Init /\ [][Next]_vars

----------------------------------------------------------------------------
(* Extractor runs: one project, the predicate form, then the full form *)

XInit ==
    /\ project \in Projects(1)
    /\ xpc = "new"
    /\ can = FALSE
    /\ out = NoOutcome
    /\ db = <<>>
    /\ QIdle

CanMap ==
    /\ xpc = "new"
    /\ can' = can_map_to_output_format(project)
    /\ xpc' = "checked"
    /\ UNCHANGED <<project, out>>
    /\ UNCHANGED qvars

Map ==
    /\ xpc = "checked"
    /\ out' = map_to_output_format(project)
    /\ xpc' = "mapped"
    /\ UNCHANGED <<project, can>>
    /\ UNCHANGED qvars

XNext == CanMap \/ Map

SpecExtractor == XInit /\ [][XNext]_vars

----------------------------------------------------------------------------
(* What the claims about the extractor speak of, stated on the project data *)

BranchPath(p) == "refs/heads/" \o unwrap(p.default_branch)

\* positions, in store order, of the heads named as the default branch
MatchingHeads(p) ==
    IF p.default_branch = None \/ p.heads = None THEN {}
    ELSE {i \in 1..Len(unwrap(p.heads)) : unwrap(p.heads)[i].name = BranchPath(p)}

FirstMatchingHead(p) ==
    unwrap(p.heads)[CHOOSE i \in MatchingHeads(p) : \A j \in MatchingHeads(p) : i <= j]

Resolves(p) ==
    /\ p.default_branch # None
    /\ p.heads # None
    /\ MatchingHeads(p) # {}
    /\ p.commits[FirstMatchingHead(p).commit_id] # None

TreeUsed(p) == unwrap(p.commits[FirstMatchingHead(p).commit_id]).tree

IsComplete(change) == change.path # None /\ change.snapshot_id # None
IsDeletion(change) == change.path # None /\ change.snapshot_id = None

\* one triple per change entry with both path and snapshot id, in tree order
CompleteRows(project_id, changes) ==
    LET kept == SelectSeq(changes, IsComplete)
    IN [i \in 1..Len(kept) |->
           <<project_id, unwrap(kept[i].path).location, unwrap(kept[i].snapshot_id)>>]

CountMsg(warnings, msgs) == Cardinality({i \in 1..Len(warnings) : warnings[i].msg \in msgs})

WarningsAbout(warnings, path_id) ==
    SelectSeq(warnings, LAMBDA w : w.msg \in {"path not found", "snapshot id not found"}
                                   /\ w.detail = path_id)

FailureMsgs == {"no default branch found", "no heads found", "no default head found",
                "no commit found at default head"}

\* the first step of the chain that fails, and the store calls made up to it
FirstFailure(p) ==
    IF p.default_branch = None
    THEN [msg |-> "no default branch found", calls |-> <<"default_branch">>]
    ELSE IF p.heads = None
    THEN [msg |-> "no heads found", calls |-> <<"default_branch", "heads_with_data">>]
    ELSE IF MatchingHeads(p) = {}
    THEN [msg |-> "no default head found", calls |-> <<"default_branch", "heads_with_data">>]
    ELSE IF p.commits[FirstMatchingHead(p).commit_id] = None
    THEN [msg |-> "no commit found at default head",
          calls |-> <<"default_branch", "heads_with_data", "commit_with_data">>]
    ELSE [msg |-> "none",
          calls |-> <<"default_branch", "heads_with_data", "commit_with_data",
                      "tree_with_data", "changes_with_data">>]

----------------------------------------------------------------------------
(* Claims about the extractor, checked under SpecExtractor *)

\* C1 as stated: the extractor returns a failure or a NON-EMPTY list of
\* triples, never success with an empty list.
C1_NeverEmptySuccess ==
    xpc = "mapped" => (out.result = None \/ unwrap(out.result) # <<>>)

\* C1 amended: the extractor returns a failure exactly when the chain default
\* branch -> heads -> matching head -> commit does not resolve; otherwise it
\* returns a list with one triple per change entry that has both path and
\* snapshot id, which is empty when the tree has no such entry.
C1_SuccessIffResolves ==
    xpc = "mapped" =>
        /\ out.result # None <=> Resolves(project)
        /\ out.result # None =>
              /\ Len(unwrap(out.result)) =
                     Len(SelectSeq(TreeUsed(project).changes, IsComplete))
              /\ \A i \in 1..Len(unwrap(out.result)) : unwrap(out.result)[i][1] = project.id

C1_EmptySuccessReached ==
    /\ xpc = "mapped"
    /\ out.result = Some(<<>>)
    /\ TreeUsed(project).changes # <<>>

\* C2: the predicate form is true exactly when the full extraction of the
\* same project returns a list.
C2_PredicateAgreesWithExtraction ==
    xpc = "mapped" => (can <=> out.result # None)

C2_AcceptedAndExtracted ==
    /\ xpc = "mapped"
    /\ can
    /\ out.result = Some(<<>>)

C4_DeletionIsSilent ==
    xpc = "mapped" /\ out.result # None =>
        /\ \A i \in 1..Len(TreeUsed(project).changes) :
              LET change == TreeUsed(project).changes[i]
                  about == WarningsAbout(out.warnings, change.path_id)
              IN /\ IsDeletion(change) => about = <<>>
                 /\ change.path = None => Len(about) = 1
        /\ unwrap(out.result) = CompleteRows(project.id, TreeUsed(project).changes)

\* C4 amended: a change with a path and no snapshot id is dropped with exactly
\* one warning ("snapshot id not found"), a change without a path with exactly
\* one warning ("path not found"); a change with both raises none, and the
\* changes with both are all emitted, in tree order.
C4_EveryDropWarns ==
    xpc = "mapped" /\ out.result # None =>
        /\ \A i \in 1..Len(TreeUsed(project).changes) :
              LET change == TreeUsed(project).changes[i]
                  about == WarningsAbout(out.warnings, change.path_id)
              IN /\ IsDeletion(change) =>
                       about = <<Warning("snapshot id not found", project.id, change.path_id)>>
                 /\ change.path = None =>
                       about = <<Warning("path not found", project.id, change.path_id)>>
                 /\ IsComplete(change) => about = <<>>
        /\ unwrap(out.result) = CompleteRows(project.id, TreeUsed(project).changes)

C4_DeletionBesideKeptChange ==
    /\ xpc = "mapped"
    /\ out.result # None
    /\ unwrap(out.result) # <<>>
    /\ \E i \in 1..Len(TreeUsed(project).changes) : IsDeletion(TreeUsed(project).changes[i])

\* C5: with several heads named as the default branch the first one in store
\* order is used (its commit, its tree) and exactly one ambiguous-head warning
\* is printed; with one such head no such warning is printed.
C5_FirstOfSeveralHeads ==
    xpc = "mapped" /\ MatchingHeads(project) # {} =>
        LET n == Cardinality(MatchingHeads(project))
            first == FirstMatchingHead(project)
            ambiguous == SelectSeq(out.warnings,
                                   LAMBDA w : w.msg = "multiple default heads found")
        IN /\ n = 1 => ambiguous = <<>>
           /\ n > 1 => ambiguous = <<Warning("multiple default heads found", project.id, n)>>
           /\ CountMsg(out.warnings, {"no default head found"}) = 0
           /\ out.calls[3] = "commit_with_data"
           /\ IF project.commits[first.commit_id] = None
              THEN /\ out.result = None
                   /\ out.warnings[Len(out.warnings)].detail = first.commit_id
              ELSE out.result =
                       Some(CompleteRows(project.id,
                                         unwrap(project.commits[first.commit_id]).tree.changes))

C5_DuplicateHeadsDifferentCommits ==
    /\ xpc = "mapped"
    /\ Cardinality(MatchingHeads(project)) > 1
    /\ \E i \in MatchingHeads(project) :
           /\ unwrap(project.heads)[i].commit_id # FirstMatchingHead(project).commit_id
           /\ project.commits[unwrap(project.heads)[i].commit_id] # None
    /\ out.result # None
    /\ unwrap(out.result) # <<>>

----------------------------------------------------------------------------
(* What the claims about the queries speak of *)

Range(seq) == {seq[i] : i \in 1..Len(seq)}

\* the projects of a stream for which the chain resolves
Extractable(stream) == SelectSeq(stream, Resolves)

NominalSize(q) == IF q = "stars" THEN TOP_SELECT ELSE SELECTION_SIZE

\* the rows a resolving project gives
RowsOf(p) == CompleteRows(p.id, TreeUsed(p).changes)

RECURSIVE RowsOfAll(_)
RowsOfAll(stream) ==
    IF stream = <<>> THEN <<>>
    ELSE (IF Resolves(Head(stream)) THEN RowsOf(Head(stream)) ELSE <<>>)
             \o RowsOfAll(Tail(stream))

\* the projects that have a row in the list of rows
ProjectsIn(rows) == {rows[i][1] : i \in 1..Len(rows)}

Resampled == pc \in {"resampled", "mapped", "done"}

----------------------------------------------------------------------------
(* Claims about the queries, checked under Spec *)

\* C6 as stated: in the "all" and "developed" queries the second sample call
\* draws, with the same seed and the nominal size, from the criteria-filtered
\* population, and its output is the final sample; the filtered first sample
\* is not its input.
C6_SecondSampleOfPopulation ==
    Resampled =>
        /\ query = "all" => sample = Random(SELECTION_SIZE, SEED_ALL, population)
        /\ query = "developed" =>
              \E candidates \in DistinctCandidates(population) :
                  sample = Random(SELECTION_SIZE, SEED_100LOC_7D_10C, candidates)

\* C6 amended: the second sample call draws, with the same seed and the
\* nominal size, from the first sample (of size SELECTION_SIZE + OVERSAMPLE,
\* drawn from the population) filtered by extractability, and its output is
\* the final sample.
C6_SecondSampleOfFilteredFirst ==
    Resampled =>
        /\ valid = Extractable(pass1)
        /\ query = "all" =>
              /\ pass1 = Random(SELECTION_SIZE + OVERSAMPLE, SEED_ALL, population)
              /\ sample = Random(SELECTION_SIZE, SEED_ALL, valid)
        /\ query = "developed" =>
              /\ \E candidates \in DistinctCandidates(population) :
                    pass1 = Random(SELECTION_SIZE + OVERSAMPLE, SEED_100LOC_7D_10C, candidates)
              /\ \E candidates \in DistinctCandidates(valid) :
                    sample = Random(SELECTION_SIZE, SEED_100LOC_7D_10C, candidates)
        /\ result = "Ok" => unwrap(csv).rows = RowsOfAll(sample)

C6_FilteredFirstSampleUsed ==
    /\ Resampled
    /\ query = "all"
    /\ valid # pass1
    /\ sample # <<>>
    /\ sample # Random(SELECTION_SIZE, SEED_ALL, population)

C10_EverySampledProjectHasRows ==
    pc \in {"mapped", "done"} =>
        /\ \A p \in Range(sample) : p \in Range(pass1) /\ Resolves(p)
        /\ Len(lists) = Len(sample)
        /\ query \in {"stars", "all"} =>
              Cardinality(ProjectsIn(flatten(lists)))
                  = Min(NominalSize(query), Len(Extractable(pass1)))

\* C10 amended: the second sample is drawn from the projects of the first
\* sample that passed can_map_to_output_format, flat_map drops no project, and
\* in the stars and all queries the number of projects of the final sample is
\* the smaller of the nominal size and the number of extractable projects of
\* the first sample; the projects with rows are those of the final sample with
\* a change entry that has both path and snapshot id.
C10_EverySampledProjectIsMapped ==
    pc \in {"mapped", "done"} =>
        /\ \A p \in Range(sample) : p \in Range(pass1) /\ Resolves(p)
        /\ Len(lists) = Len(sample)
        /\ query \in {"stars", "all"} =>
              Len(sample) = Min(NominalSize(query), Len(Extractable(pass1)))
        /\ ProjectsIn(flatten(lists))
               = {p.id : p \in {x \in Range(sample) : RowsOf(x) # <<>>}}

C10_SampledProjectWithoutRows ==
    /\ pc = "mapped"
    /\ query \in {"stars", "all"}
    /\ Len(valid) < Len(pass1)
    /\ lists = <<<<>>>>

====
